---- MODULE Spec2Model ----
(***************************************************************************)
(* Model of the POST /ask handler of app.py (Metropolia course FAQ         *)
(* assistant): request parsing, normalisation, the six ordered validation  *)
(* checks, prompt composition, the single outbound chat-completion call    *)
(* made by ask_model, and the mapping of every outcome to a JSON response. *)
(*                                                                         *)
(* Strings that are measured and stripped (text, question, model output)   *)
(* are run-length encoded: a sequence of runs [ch, n], n >= 1, adjacent    *)
(* runs having different characters.  Messages are sequences of words.     *)
(***************************************************************************)
EXTENDS Integers, Sequences, FiniteSets, TLC

VARIABLES pc, req, data, text, question, checked, prompt, upstream, calls,
          answer, exc, log, status, body, last

vars == <<pc, req, data, text, question, checked, prompt, upstream, calls,
          answer, exc, log, status, body, last>>

(* ------------------------------ bounds --------------------------------- *)

\* longest run of whitespace put before or after a field's visible part
MaxPad == 1

(* ------------------------- program constants --------------------------- *)

TEXT_MAX_LENGTH == 5000
QUESTION_MAX_LENGTH == 300
TEXT_MIN_LENGTH == 20
QUESTION_MIN_LENGTH == 3

(* ------------------------------ strings -------------------------------- *)

Run(c, n) == IF n = 0 THEN <<>> ELSE << [ch |-> c, n |-> n] >>

\* characters str.strip() removes (two of Python's whitespace characters)
Whitespace == {" ", "\n"}

RECURSIVE len(_)
len(s) == IF s = <<>> THEN 0 ELSE Head(s).n + len(Tail(s))

RECURSIVE lstrip(_)
lstrip(s) ==
    IF s # <<>> /\ Head(s).ch \in Whitespace THEN lstrip(Tail(s)) ELSE s

RECURSIVE rstrip(_)
rstrip(s) ==
    IF s # <<>> /\ s[Len(s)].ch \in Whitespace
    THEN rstrip(SubSeq(s, 1, Len(s) - 1))
    ELSE s

strip(s) == rstrip(lstrip(s))

\* s surrounded by lead spaces and trail newlines
Pad(lead, s, trail) == Run(" ", lead) \o s \o Run("\n", trail)

Padded(cores) ==
    { Pad(l, c, t) : l \in 0..MaxPad, c \in cores, t \in 0..MaxPad }

\* word sequences: does needle occur in hay as a contiguous part
Contains(hay, needle) ==
    /\ needle # <<>>
    /\ \E i \in 1..Len(hay) :
          /\ i + Len(needle) - 1 <= Len(hay)
          /\ SubSeq(hay, i, i + Len(needle) - 1) = needle

(* --------------------------- JSON values ------------------------------- *)

Missing == [type |-> "missing", str |-> <<>>, num |-> 0]
Null == [type |-> "null", str |-> <<>>, num |-> 0]
Str(s) == [type |-> "string", str |-> s, num |-> 0]
Num(k) == [type |-> "number", str |-> <<>>, num |-> k]

\* Python truth value of a JSON field value (None for a missing key)
Truthy(v) ==
    CASE v.type = "string" -> v.str # <<>>
      [] v.type = "number" -> v.num # 0
      [] OTHER -> FALSE

\* the coercion left out: null and absent values reach .strip() as they are
OrEmptyOmitted(v) == v

\* (v or ""): the value itself when truthy, else the empty string
OrEmpty(v) == IF Truthy(v) THEN v ELSE Str(<<>>)

\* only the front trimmed, as lstrip() would
TrimmedLeftOnly(s) == lstrip(s)

\* the .strip() applied to a field once it is known to be a string
Trimmed(s) == strip(s)

(* ------------------------------ inputs --------------------------------- *)

\* visible parts of the text field: none at all (a whitespace-only field),
\* one below the minimum, one of exactly the minimum with an inner blank and
\* a non-ASCII letter, one of exactly the maximum and one above it
TextCores ==
    { <<>>,
      Run("a", TEXT_MIN_LENGTH - 1),
      Run("a", 10) \o Run(" ", 1) \o Run("é", TEXT_MIN_LENGTH - 11),
      Run("a", TEXT_MAX_LENGTH),
      Run("a", TEXT_MAX_LENGTH + 1) }

QuestionCores ==
    { <<>>,
      Run("q", QUESTION_MIN_LENGTH - 1),
      Run("q", 1) \o Run(" ", 1) \o Run("é", QUESTION_MIN_LENGTH - 2),
      Run("q", QUESTION_MAX_LENGTH),
      Run("q", QUESTION_MAX_LENGTH + 1) }

TextValues == {Missing, Null} \cup { Str(s) : s \in Padded(TextCores) }
QuestionValues == {Missing, Null} \cup { Str(s) : s \in Padded(QuestionCores) }

\* bodies the contract describes: an object with string, null or absent fields
ObjectRequests ==
    [kind : {"object"}, text : TextValues, question : QuestionValues]

\* objects with a field that is neither a string nor null
OddValues == {Num(0), Num(7)}
OddRequests ==
    [kind : {"object"}, text : OddValues,
     question : {Missing, Str(<<>>), Str(Run("q", QUESTION_MIN_LENGTH))}]
    \cup
    [kind : {"object"},
     text : {Missing, Str(<<>>), Str(Run("a", TEXT_MIN_LENGTH))},
     question : OddValues]

\* bodies that are not JSON at all, or JSON that is not an object
NonObjectRequests ==
    [kind : {"notjson", "null", "array", "string", "number"},
     text : {Missing}, question : {Missing}]

Requests == ObjectRequests \cup OddRequests \cup NonObjectRequests

\* what the chat-completion call can do: return a response whose first
\* choice has string content, return one whose content is null, return one
\* with no choices, or raise with some message
NoContent == [type |-> "none", str |-> <<>>, num |-> 0]

Contents ==
    {Null} \cup
    { Str(s) : s \in { <<>>, Run(" ", 1) \o Run("\n", 1),
                       Run(" ", 1) \o Run("A", 24) \o Run("\n", 2) } }

ErrorMessages ==
    { <<"API", "Error">>, <<"error">> }

NoUpstream == [kind |-> "none", choices |-> 0, content |-> NoContent, msg |-> <<>>]

Outcomes ==
    [kind : {"returns"}, choices : {1}, content : Contents, msg : {<<>>}]
    \cup
    [kind : {"returns"}, choices : {0}, content : {NoContent}, msg : {<<>>}]
    \cup
    [kind : {"raises"}, choices : {0}, content : {NoContent}, msg : ErrorMessages]

(* ----------------------------- messages -------------------------------- *)

MSG_TEXT_EMPTY == <<"Please", "provide", "lecture", "text.">>
MSG_QUESTION_EMPTY == <<"Please", "enter", "a", "question.">>
MSG_TEXT_SHORT ==
    <<"Lecture", "text", "is", "too", "short.",
      "Please", "provide", "more", "content.">>
MSG_QUESTION_SHORT ==
    <<"Question", "is", "too", "short.", "Please", "be", "more", "specific.">>
MSG_TEXT_LONG ==
    <<"Lecture", "text", "exceeds", "maximum", "length", "(">>
    \o <<ToString(TEXT_MAX_LENGTH)>>
    \o <<"characters).", "Please", "shorten", "it.">>
MSG_QUESTION_LONG ==
    <<"Question", "exceeds", "maximum", "length", "(">>
    \o <<ToString(QUESTION_MAX_LENGTH)>>
    \o <<"characters).", "Please", "shorten", "it.">>
MSG_GENERIC == <<"An", "error", "occurred.", "Please", "try", "again", "later.">>

\* text of the exceptions raised inside the handler
EXC_BAD_REQUEST == <<"400", "Bad", "Request:", "Failed", "to", "decode", "JSON", "object">>
EXC_NO_GET == <<"object", "has", "no", "attribute", "'get'">>
EXC_NO_STRIP == <<"object", "has", "no", "attribute", "'strip'">>
EXC_NO_CHOICE == <<"list", "index", "out", "of", "range">>

(* ------------------------------ handler -------------------------------- *)

NoBody == [none |-> <<>>]
NoPrompt == <<>>
NoExchange ==
    [valid |-> FALSE, req |-> [kind |-> "none", text |-> Missing, question |-> Missing],
     status |-> 0, body |-> NoBody, calls |-> 0, prompt |-> NoPrompt,
     upstream |-> NoUpstream]

NumChecks == 6

\* the upper limits taken as exclusive
CheckFailsExclusive(k, t, q) ==
    CASE k = 1 -> len(t) = 0
      [] k = 2 -> len(q) = 0
      [] k = 3 -> len(t) < TEXT_MIN_LENGTH
      [] k = 4 -> len(q) < QUESTION_MIN_LENGTH
      [] k = 5 -> len(t) >= TEXT_MAX_LENGTH
      [] k = 6 -> len(q) >= QUESTION_MAX_LENGTH

\* does validation check k (in source order) reject the trimmed values
CheckFails(k, t, q) ==
    CASE k = 1 -> len(t) = 0
      [] k = 2 -> len(q) = 0
      [] k = 3 -> len(t) < TEXT_MIN_LENGTH
      [] k = 4 -> len(q) < QUESTION_MIN_LENGTH
      [] k = 5 -> len(t) > TEXT_MAX_LENGTH
      [] k = 6 -> len(q) > QUESTION_MAX_LENGTH

\* the two "exceeds maximum length" messages given each other's limit
CheckMessageLimitsSwapped(k) ==
    CASE k = 1 -> MSG_TEXT_EMPTY
      [] k = 2 -> MSG_QUESTION_EMPTY
      [] k = 3 -> MSG_TEXT_SHORT
      [] k = 4 -> MSG_QUESTION_SHORT
      [] k = 5 -> <<"Lecture", "text", "exceeds", "maximum", "length", "(">>
                  \o <<ToString(QUESTION_MAX_LENGTH)>>
                  \o <<"characters).", "Please", "shorten", "it.">>
      [] k = 6 -> <<"Question", "exceeds", "maximum", "length", "(">>
                  \o <<ToString(TEXT_MAX_LENGTH)>>
                  \o <<"characters).", "Please", "shorten", "it.">>

CheckMessage(k) ==
    CASE k = 1 -> MSG_TEXT_EMPTY
      [] k = 2 -> MSG_QUESTION_EMPTY
      [] k = 3 -> MSG_TEXT_SHORT
      [] k = 4 -> MSG_QUESTION_SHORT
      [] k = 5 -> MSG_TEXT_LONG
      [] k = 6 -> MSG_QUESTION_LONG

\* the second and third checks written in the other order
CheckResultReordered(k, t, q) ==
    LET j == IF k = 2 THEN 3 ELSE IF k = 3 THEN 2 ELSE k
    IN  IF CheckFails(j, t, q) THEN CheckMessage(j) ELSE <<>>

\* the k-th "if ...: return jsonify({"error": ...}), 400": the message it
\* returns, or <<>> when it falls through
CheckResult(k, t, q) ==
    IF CheckFails(k, t, q) THEN CheckMessage(k) ELSE <<>>

\* the last validation return written without its status
ValidationStatusDropped(k) == IF k = NumChecks THEN 200 ELSE 400

\* status of the k-th validation return
ValidationStatus(k) == 400

\* the except branch returning without its status
ErrorStatusDropped(e) == 200

\* status the except branch returns for the exception it caught
ErrorStatus(e) == 500

\* the f-string of line 88, with the two values in their places
ComposePrompt(t, q) ==
    << "Based on the following course material, please answer the question.\n\nCourse Material:\n",
       t, "\n\nQuestion: ", q, "\n\nProvide a clear and concise answer." >>

\* the exception text passed on to the client
ErrorBodyLeaking(e) == [error |-> e]

\* the body sent with a caught exception
ErrorBody(e) == [error |-> MSG_GENERIC]

\* the content returned as it came
NormalizeOmitted(content) == content

\* what ask_model returns for a response with string content
Normalize(content) == strip(content)

\* the adapter trying the call again instead of raising
OnAdapterErrorRetry == "call"

\* where control goes when the adapter's try block fails: the raise of
\* line 55 lands in the handler's except branch
OnAdapterError == "except"

Init ==
    /\ pc = "idle"
    /\ req = NoExchange.req
    /\ data = "none"
    /\ text = <<>>
    /\ question = <<>>
    /\ checked = 0
    /\ prompt = NoPrompt
    /\ upstream = NoUpstream
    /\ calls = 0
    /\ answer = <<>>
    /\ exc = <<>>
    /\ log = <<>>
    /\ status = 0
    /\ body = NoBody
    /\ last = NoExchange

\* a request arrives and the handler is entered with fresh locals
Accept(b) ==
    /\ req' = b
    /\ pc' = "parse"
    /\ data' = "none"
    /\ text' = <<>>
    /\ question' = <<>>
    /\ checked' = 0
    /\ prompt' = NoPrompt
    /\ upstream' = NoUpstream
    /\ calls' = 0
    /\ answer' = <<>>
    /\ exc' = <<>>
    /\ status' = 0
    /\ body' = NoBody
    /\ log' = <<>>
    /\ UNCHANGED last

Receive ==
    /\ pc = "idle"
    /\ \E b \in Requests : Accept(b)

\* data = request.json
ParseJson ==
    /\ pc = "parse"
    /\ IF req.kind = "notjson"
       THEN /\ exc' = EXC_BAD_REQUEST
            /\ pc' = "except"
            /\ UNCHANGED data
       ELSE /\ data' = req.kind
            /\ pc' = "text"
            /\ UNCHANGED exc
    /\ UNCHANGED <<req, text, question, checked, prompt, upstream, calls,
                   answer, log, status, body, last>>

\* text = (data.get("text") or "").strip()
GetText ==
    /\ pc = "text"
    /\ IF data # "object"
       THEN /\ exc' = EXC_NO_GET
            /\ pc' = "except"
            /\ UNCHANGED text
       ELSE IF OrEmpty(req.text).type # "string"
       THEN /\ exc' = EXC_NO_STRIP
            /\ pc' = "except"
            /\ UNCHANGED text
       ELSE /\ text' = Trimmed(OrEmpty(req.text).str)
            /\ pc' = "question"
            /\ UNCHANGED exc
    /\ UNCHANGED <<req, data, question, checked, prompt, upstream, calls,
                   answer, log, status, body, last>>

\* question = (data.get("question") or "").strip()
GetQuestion ==
    /\ pc = "question"
    /\ IF OrEmpty(req.question).type # "string"
       THEN /\ exc' = EXC_NO_STRIP
            /\ pc' = "except"
            /\ UNCHANGED question
       ELSE /\ question' = Trimmed(OrEmpty(req.question).str)
            /\ pc' = "check"
            /\ UNCHANGED exc
    /\ UNCHANGED <<req, data, text, checked, prompt, upstream, calls,
                   answer, log, status, body, last>>

\* the next validation check in source order: return 400 or fall through
Check ==
    /\ pc = "check"
    /\ checked < NumChecks
    /\ IF CheckResult(checked + 1, text, question) # <<>>
       THEN /\ status' = ValidationStatus(checked + 1)
            /\ body' = [error |-> CheckResult(checked + 1, text, question)]
            /\ pc' = "done"
            /\ UNCHANGED checked
       ELSE /\ checked' = checked + 1
            /\ UNCHANGED <<status, body, pc>>
    /\ UNCHANGED <<req, data, text, question, prompt, upstream, calls,
                   answer, exc, log, last>>

\* prompt = f"..."
Compose ==
    /\ pc = "check"
    /\ checked = NumChecks
    /\ prompt' = ComposePrompt(text, question)
    /\ pc' = "call"
    /\ UNCHANGED <<req, data, text, question, checked, upstream, calls,
                   answer, exc, log, status, body, last>>

\* client.chat.completions.create(...): the one outbound call
CallModel ==
    /\ pc = "call"
    /\ \E o \in Outcomes : upstream' = o
    /\ calls' = calls + 1
    /\ pc' = "adapter"
    /\ UNCHANGED <<req, data, text, question, checked, prompt, answer, exc,
                   log, status, body, last>>

\* return resp.choices[0].message.content.strip()
AdapterReturn ==
    /\ pc = "adapter"
    /\ upstream.kind = "returns"
    /\ upstream.choices > 0
    /\ upstream.content.type = "string"
    /\ answer' = Normalize(upstream.content.str)
    /\ pc' = "respond"
    /\ UNCHANGED <<req, data, text, question, checked, prompt, upstream,
                   calls, exc, log, status, body, last>>

\* except Exception as e: raise Exception(f"API Error: {str(e)}")
AdapterRaise ==
    /\ pc = "adapter"
    /\ \/ upstream.kind = "raises"
       \/ upstream.choices = 0
       \/ upstream.content.type # "string"
    /\ exc' = <<"API", "Error:">> \o
              (IF upstream.kind = "raises" THEN upstream.msg
               ELSE IF upstream.choices = 0 THEN EXC_NO_CHOICE
               ELSE EXC_NO_STRIP)
    /\ pc' = OnAdapterError
    /\ UNCHANGED <<req, data, text, question, checked, prompt, upstream,
                   calls, answer, log, status, body, last>>

\* return jsonify({"answer": answer})
ReturnAnswer ==
    /\ pc = "respond"
    /\ status' = 200
    /\ body' = [answer |-> answer]
    /\ pc' = "done"
    /\ UNCHANGED <<req, data, text, question, checked, prompt, upstream,
                   calls, answer, exc, log, last>>

\* except Exception as e: print(...); return jsonify({"error": ...}), 500
HandleException ==
    /\ pc = "except"
    /\ log' = <<"Error", "in", "/ask", "endpoint:">> \o exc
    /\ status' = ErrorStatus(exc)
    /\ body' = ErrorBody(exc)
    /\ pc' = "done"
    /\ UNCHANGED <<req, data, text, question, checked, prompt, upstream,
                   calls, answer, exc, last>>

\* the response has been sent and the request's locals are gone; the server
\* waits for the next request
Forget ==
    /\ pc' = "idle"
    /\ req' = NoExchange.req
    /\ data' = "none"
    /\ text' = <<>>
    /\ question' = <<>>
    /\ checked' = 0
    /\ prompt' = NoPrompt
    /\ upstream' = NoUpstream
    /\ calls' = 0
    /\ answer' = <<>>
    /\ exc' = <<>>
    /\ log' = <<>>
    /\ status' = 0
    /\ body' = NoBody

Finish ==
    /\ pc = "done"
    /\ Forget
    /\ UNCHANGED last

Handle ==
    \/ ParseJson
    \/ GetText
    \/ GetQuestion
    \/ Check
    \/ Compose
    \/ CallModel
    \/ AdapterReturn
    \/ AdapterRaise
    \/ ReturnAnswer
    \/ HandleException

Next == Receive \/ Handle \/ Finish

Spec == Init /\ [][Next]_vars

(* ------------------ two requests, one after the other ------------------ *)

\* field values with the same trimmed content as v: null, absent and every
\* padding of the same visible part
Related(v, values) ==
    { w \in values : w.type \in {"missing", "null", "string"}
                      /\ v.type \in {"missing", "null", "string"}
                      /\ strip(w.str) = strip(v.str) } \cup {v}

\* the requests that restate r (one field written differently, its trimmed
\* content the same) or edit it (one field given another visible part)
Variants(r) ==
    IF r.kind # "object" THEN {r}
    ELSE ({ [r EXCEPT !.text = w] :
               w \in Related(r.text, TextValues) \cup { Str(c) : c \in TextCores } }
          \cup
          { [r EXCEPT !.question = w] :
               w \in Related(r.question, QuestionValues)
                     \cup { Str(c) : c \in QuestionCores } })
         \cap Requests

\* a client sends a request and then, once answered, a restatement of it
ReceivePair ==
    /\ pc = "idle"
    /\ \E b \in (IF last.valid THEN Variants(last.req) ELSE Requests) : Accept(b)

\* as Finish, keeping the first exchange of a pair for comparison
FinishRecord ==
    /\ pc = "done"
    /\ Forget
    /\ last' = IF last.valid THEN NoExchange
               ELSE [valid |-> TRUE, req |-> req, status |-> status,
                     body |-> body, calls |-> calls, prompt |-> prompt,
                     upstream |-> upstream]

NextPair == ReceivePair \/ Handle \/ FinishRecord

PairSpec == Init /\ [][NextPair]_vars

(* ------------------------------ claims --------------------------------- *)

\* what the claims measure, taken from the request as it was sent: the
\* field's content without its surrounding whitespace, nothing for a field
\* that is null or absent
Visible(v) == IF v.type = "string" THEN strip(v.str) ELSE <<>>
TL == len(Visible(req.text))
QL == len(Visible(req.question))
Contract == req \in ObjectRequests
InBounds ==
    /\ Contract
    /\ TEXT_MIN_LENGTH <= TL /\ TL <= TEXT_MAX_LENGTH
    /\ QUESTION_MIN_LENGTH <= QL /\ QL <= QUESTION_MAX_LENGTH
Words(m) == { m[i] : i \in DOMAIN m }
Rejected(m) == status = 400 /\ body = [error |-> m]
UpstreamFailed ==
    \/ upstream.kind = "raises"
    \/ upstream.kind = "returns" /\ upstream.choices = 0
    \/ upstream.kind = "returns" /\ upstream.content.type # "string"
UpstreamGaveText ==
    /\ upstream.kind = "returns"
    /\ upstream.choices > 0
    /\ upstream.content.type = "string"

\* C1: for a body that is an object with string, null or absent fields, the
\* response is HTTP 400 with the message of the first failing check in the
\* order text empty, question empty, text short, question short, text long,
\* question long; the six messages are distinct; later checks do not matter.
C1_FirstFailingCheck ==
    (pc = "done" /\ Contract) =>
        /\ (TL = 0 => Rejected(MSG_TEXT_EMPTY))
        /\ (TL > 0 /\ QL = 0 => Rejected(MSG_QUESTION_EMPTY))
        /\ (TL > 0 /\ QL > 0 /\ TL < TEXT_MIN_LENGTH => Rejected(MSG_TEXT_SHORT))
        /\ (TL >= TEXT_MIN_LENGTH /\ QL > 0 /\ QL < QUESTION_MIN_LENGTH
               => Rejected(MSG_QUESTION_SHORT))
        /\ (TL > TEXT_MAX_LENGTH /\ QL >= QUESTION_MIN_LENGTH
               => Rejected(MSG_TEXT_LONG))
        /\ (TL >= TEXT_MIN_LENGTH /\ TL <= TEXT_MAX_LENGTH /\ QL > QUESTION_MAX_LENGTH
               => Rejected(MSG_QUESTION_LONG))
        /\ Cardinality({MSG_TEXT_EMPTY, MSG_QUESTION_EMPTY, MSG_TEXT_SHORT,
                        MSG_QUESTION_SHORT, MSG_TEXT_LONG, MSG_QUESTION_LONG}) = 6

\* two checks fail (text too short, question empty) and the earlier one,
\* on the question, answers
C1_Witness ==
    /\ pc = "done" /\ Contract
    /\ TL > 0 /\ TL < TEXT_MIN_LENGTH /\ QL = 0
    /\ Rejected(MSG_QUESTION_EMPTY)

\* C2 as stated: a valid request whose upstream call returns a completion,
\* whatever its content, is answered 200 with a non-empty answer.
C2_AnyContentGivesAnswer ==
    (pc = "done" /\ InBounds /\ UpstreamGaveText) =>
        /\ status = 200
        /\ DOMAIN body = {"answer"}
        /\ body.answer # <<>>

\* C2 amended: a valid request whose upstream call returns a first choice
\* with string content is answered 200 with that content trimmed; the answer
\* is non-empty exactly when the content has a non-whitespace character.
C2_TrimmedContentIsAnswer ==
    (pc = "done" /\ InBounds /\ UpstreamGaveText) =>
        /\ status = 200
        /\ body = [answer |-> strip(upstream.content.str)]
        /\ (body.answer # <<>>
              <=> \E i \in DOMAIN upstream.content.str :
                     upstream.content.str[i].ch \notin Whitespace)

\* padded content came back and the answer carries its visible part only
C2_Witness ==
    /\ pc = "done" /\ InBounds /\ UpstreamGaveText
    /\ upstream.content.str # strip(upstream.content.str)
    /\ status = 200
    /\ body.answer # <<>>

\* C3 as stated: when the adapter fails for a valid request the response is
\* 500 with the fixed body, and the client-visible message contains no
\* upstream error message, whatever that message is.
C3_NeverContainsUpstreamMessage ==
    (pc = "done" /\ InBounds /\ UpstreamFailed) =>
        /\ status = 500
        /\ body = [error |-> MSG_GENERIC]
        /\ (upstream.kind = "raises" => ~Contains(body.error, upstream.msg))

\* C3 amended: when the adapter fails for a valid request the response is
\* 500 with the fixed body, the same for every upstream error; the text of
\* the exception the handler caught ("API Error: " and the upstream message)
\* is logged and is not in the client-visible message.
C3_FixedBodyDetailLogged ==
    (pc = "done" /\ InBounds /\ UpstreamFailed) =>
        /\ status = 500
        /\ body = [error |-> MSG_GENERIC]
        /\ (upstream.kind = "raises" => Contains(exc, upstream.msg))
        /\ Contains(log, exc)
        /\ ~Contains(body.error, exc)

\* the upstream call raised "API Error" and the client got the fixed body
C3_Witness ==
    /\ pc = "done" /\ InBounds
    /\ upstream.kind = "raises" /\ upstream.msg = <<"API", "Error">>
    /\ status = 500
    /\ body = [error |-> MSG_GENERIC]

\* C4 as stated: an over-long field gives 400 with that field's limit number
\* in the message, whatever the other field is.
C4_LimitAlwaysInMessage ==
    (pc = "done" /\ Contract /\ (TL > TEXT_MAX_LENGTH \/ QL > QUESTION_MAX_LENGTH)) =>
        /\ status = 400
        /\ DOMAIN body = {"error"}
        /\ (TL > TEXT_MAX_LENGTH => ToString(TEXT_MAX_LENGTH) \in Words(body.error))
        /\ (QL > QUESTION_MAX_LENGTH
               => ToString(QUESTION_MAX_LENGTH) \in Words(body.error))

\* C4 amended: an over-long field gives 400 whatever the other field is; the
\* message carries the text limit when the text is over-long and the
\* question has at least its minimum length, the question limit when the
\* question is over-long and the text is within its bounds, and otherwise is
\* the message of the earlier failing check, which carries no limit.
C4_LimitInMessageWhenReached ==
    (pc = "done" /\ Contract /\ (TL > TEXT_MAX_LENGTH \/ QL > QUESTION_MAX_LENGTH)) =>
        /\ status = 400
        /\ DOMAIN body = {"error"}
        /\ (TL > TEXT_MAX_LENGTH /\ QL >= QUESTION_MIN_LENGTH
               => /\ ToString(TEXT_MAX_LENGTH) \in Words(body.error)
                  /\ ToString(QUESTION_MAX_LENGTH) \notin Words(body.error))
        /\ (QL > QUESTION_MAX_LENGTH /\ TL >= TEXT_MIN_LENGTH /\ TL <= TEXT_MAX_LENGTH
               => /\ ToString(QUESTION_MAX_LENGTH) \in Words(body.error)
                  /\ ToString(TEXT_MAX_LENGTH) \notin Words(body.error))
        /\ (QL < QUESTION_MIN_LENGTH \/ (QL > QUESTION_MAX_LENGTH /\ TL < TEXT_MIN_LENGTH)
               => /\ body.error \in {MSG_TEXT_EMPTY, MSG_QUESTION_EMPTY,
                                     MSG_TEXT_SHORT, MSG_QUESTION_SHORT}
                  /\ ToString(TEXT_MAX_LENGTH) \notin Words(body.error)
                  /\ ToString(QUESTION_MAX_LENGTH) \notin Words(body.error))

\* both fields are over-long and the message names the text limit
C4_Witness ==
    /\ pc = "done" /\ Contract
    /\ TL = TEXT_MAX_LENGTH + 1 /\ QL = QUESTION_MAX_LENGTH + 1
    /\ status = 400
    /\ ToString(TEXT_MAX_LENGTH) \in Words(body.error)

\* C5: a request is accepted by validation (no 400, the adapter invoked)
\* exactly when 20 <= trimmed text length <= 5000 and 3 <= trimmed question
\* length <= 300; the limits themselves are accepted.
C5_InclusiveBounds ==
    (pc = "done" /\ Contract) =>
        /\ (status # 400 /\ calls = 1) <=> InBounds
        /\ status = 400 <=> ~InBounds
        /\ (TL \in {TEXT_MIN_LENGTH, TEXT_MAX_LENGTH}
              /\ QL \in {QUESTION_MIN_LENGTH, QUESTION_MAX_LENGTH}
              /\ UpstreamGaveText => status = 200)

\* text of exactly 5000 and question of exactly 300 characters succeeded
C5_Witness ==
    /\ pc = "done" /\ Contract
    /\ TL = TEXT_MAX_LENGTH /\ QL = QUESTION_MAX_LENGTH
    /\ calls = 1
    /\ status = 200

\* C6: two requests that differ only in one field being null or absent in
\* one and "" in the other get the same status, the same body and the same
\* number of adapter invocations; with string-or-null fields that is the 400
\* "empty" message of the first empty field.
NullOrAbsent(v) == v \in {Null, Missing}
NullVersusEmpty(a, b) ==
    /\ a.kind = "object" /\ b.kind = "object"
    /\ \/ a.question = b.question /\ NullOrAbsent(a.text) /\ b.text = Str(<<>>)
       \/ a.question = b.question /\ NullOrAbsent(b.text) /\ a.text = Str(<<>>)
       \/ a.text = b.text /\ NullOrAbsent(a.question) /\ b.question = Str(<<>>)
       \/ a.text = b.text /\ NullOrAbsent(b.question) /\ a.question = Str(<<>>)
C6_NullIsEmpty ==
    (pc = "done" /\ last.valid /\ NullVersusEmpty(last.req, req)) =>
        /\ status = last.status
        /\ body = last.body
        /\ calls = last.calls
        /\ calls = 0
        /\ (Contract =>
               /\ status = 400
               /\ body.error = IF TL = 0 THEN MSG_TEXT_EMPTY ELSE MSG_QUESTION_EMPTY)

\* a request with a null question was followed by the same request with ""
\* for the question, and both were told to enter a question
C6_Witness ==
    /\ pc = "done" /\ last.valid
    /\ last.req.question = Null /\ req.question = Str(<<>>)
    /\ req.text = last.req.text /\ TL >= TEXT_MIN_LENGTH
    /\ Rejected(MSG_QUESTION_EMPTY)
    /\ last.body = [error |-> MSG_QUESTION_EMPTY]

\* C7: the outcome depends only on the trimmed values: two requests with the
\* same trimmed fields get the same prompt and call count and, for the same
\* upstream outcome, the same status and body; the prompt embeds the trimmed
\* values; a whitespace-only field is empty; a field below its minimum
\* after trimming is too short even when its raw length reaches the minimum.
SameTrimmed(a, b) ==
    /\ a \in ObjectRequests /\ b \in ObjectRequests
    /\ Visible(a.text) = Visible(b.text)
    /\ Visible(a.question) = Visible(b.question)
AllWhitespace(v) ==
    /\ v.type = "string" /\ v.str # <<>>
    /\ \A i \in DOMAIN v.str : v.str[i].ch \in Whitespace
C7_TrimmingPrecedesChecks ==
    /\ (pc = "done" /\ last.valid /\ SameTrimmed(last.req, req)) =>
          /\ prompt = last.prompt
          /\ calls = last.calls
          /\ (upstream = last.upstream => status = last.status /\ body = last.body)
          /\ (status = 400 => status = last.status /\ body = last.body)
    /\ (pc = "done" /\ Contract) =>
          /\ (calls = 1 => prompt[2] = Visible(req.text) /\ prompt[4] = Visible(req.question))
          /\ (AllWhitespace(req.text) => Rejected(MSG_TEXT_EMPTY))
          /\ (AllWhitespace(req.question) /\ TL > 0 => Rejected(MSG_QUESTION_EMPTY))
          /\ (TL > 0 /\ TL < TEXT_MIN_LENGTH /\ QL > 0 /\ len(req.text.str) >= TEXT_MIN_LENGTH
                => Rejected(MSG_TEXT_SHORT))
          /\ (TL >= TEXT_MIN_LENGTH /\ QL > 0 /\ QL < QUESTION_MIN_LENGTH
                /\ len(req.question.str) >= QUESTION_MIN_LENGTH
                => Rejected(MSG_QUESTION_SHORT))

\* 19 visible characters padded to a raw length of at least 20 were rejected
\* as too short, as the unpadded request before it was
C7_Witness ==
    /\ pc = "done" /\ last.valid /\ SameTrimmed(last.req, req)
    /\ req.text # last.req.text
    /\ TL = TEXT_MIN_LENGTH - 1 /\ len(req.text.str) >= TEXT_MIN_LENGTH
    /\ Rejected(MSG_TEXT_SHORT)
    /\ last.body = body

\* C8: a body that is not JSON, or is JSON other than an object with string
\* or null fields, is answered 400 or 500, never 200, and the adapter is not
\* invoked for it.
C8_MalformedBody ==
    (pc # "idle" /\ ~Contract) =>
        /\ calls = 0
        /\ upstream = NoUpstream
        /\ status # 200
        /\ (pc = "done" => status \in {400, 500})

\* a body that is not JSON was answered 500
C8_Witness ==
    /\ pc = "done"
    /\ req.kind = "notjson"
    /\ status = 500
    /\ calls = 0

\* C9: every response is a JSON object with exactly one of the keys answer
\* and error; answer goes with status 200 and only with it, error with 400
\* or 500 and only with them; the handler produces no other status.
C9_OneKeyPerStatus ==
    (pc = "done") =>
        /\ status \in {200, 400, 500}
        /\ DOMAIN body \in {{"answer"}, {"error"}}
        /\ ("answer" \in DOMAIN body <=> status = 200)
        /\ ("error" \in DOMAIN body <=> status \in {400, 500})

\* the last check rejected a question: 400 with the error key alone
C9_Witness ==
    /\ pc = "done"
    /\ status = 400
    /\ body = [error |-> MSG_QUESTION_LONG]

\* C10: per request the outbound call is made at most once; exactly once
\* when and only when all six checks pass; only after the last check; not
\* again after an upstream failure; never for a request answered 400.
C10_AtMostOneCall ==
    /\ calls \in {0, 1}
    /\ (calls = 1 => checked = NumChecks /\ InBounds)
    /\ (pc \in {"parse", "text", "question", "check", "call"} => calls = 0)
    /\ (pc = "done" => (calls = 1 <=> InBounds))
    /\ (pc = "done" /\ UpstreamFailed => calls = 1)
    /\ (status = 400 => calls = 0)

\* the call raised, the request was answered 500 and one call had been made
C10_Witness ==
    /\ pc = "done"
    /\ upstream.kind = "raises"
    /\ status = 500
    /\ calls = 1

====
